---- MODULE Spec2Model ----
(***************************************************************************)
(* morfo: build-and-run orchestration (src/src/lib.rs), stem extraction   *)
(* (src/src/utils.rs), the include scanner (src/src/act/builder.rs) and    *)
(* the dependency graph builder that execute calls as ACT::build.          *)
(*                                                                         *)
(* Strings are sequences of one-character strings, so that splitting,      *)
(* joining and formatting are computed character by character as the code  *)
(* computes them.                                                          *)
(***************************************************************************)
EXTENDS Integers, Sequences, FiniteSets, TLC

VARIABLES
    \* ---- inputs of execute and the environment it runs in
    tree,        \* the ACT handed to compile and run (name, dependencies)
    cfg,         \* the Config: cc, cflags, builddir
    VERBOSITY,   \* the VERBOSITY environment variable
    dir,         \* the build directory on disk
    files,       \* the artifacts in the build directory, by file name
    \* ---- control state of execute / compile / run
    phase,       \* position inside execute
    stack,       \* the activation records of the recursive compile
    ret,         \* the value a compile call has just returned to its caller
    compileRet,  \* what the outermost compile returned to execute
    runRet,      \* what run returned to execute
    result,      \* what execute returned
    \* ---- observable effects, in the order they happen
    log,         \* println!, process starts, child output, writes to `out`
    \* ---- utils::file_name applied to an arbitrary path
    path,        \* the argument
    stem,        \* file_name(path)
    stem2,       \* file_name(file_name(path))
    stemPc,      \* how far the two applications have got
    \* ---- act::builder::get_all_includes applied to one file
    srcFile,     \* the file at `filepath`: whether it can be read, its text
    lineIdx,     \* the line the for loop is at
    includes,    \* the vector `includes`
    scanRet,     \* what get_all_includes returned
    scanPc,      \* position inside get_all_includes
    \* ---- ACT::build(main_file), the dependency graph builder
    project,     \* the directory: its index and the text of its sources
    buildStack,  \* the activation records of the recursive build
    act,         \* the node build returned, <<>> until then
    buildPc      \* position inside build

vars == <<tree, cfg, VERBOSITY, dir, files, phase, stack, ret, compileRet,
          runRet, result, log, path, stem, stem2, stemPc,
          srcFile, lineIdx, includes, scanRet, scanPc,
          project, buildStack, act, buildPc>>

execVars == <<tree, cfg, VERBOSITY, dir, files, phase, stack, ret, compileRet,
              runRet, result, log>>

stemVars == <<path, stem, stem2, stemPc>>

scanVars == <<srcFile, lineIdx, includes, scanRet, scanPc>>

\* what execute, and what file_name, leave alone
graphVars == <<project, buildStack, act, buildPc>>

otherThanExec == <<stemVars, scanVars, graphVars>>
otherThanStem == <<execVars, scanVars, graphVars>>
otherThanScan == <<execVars, stemVars, graphVars>>
otherThanGraph == <<execVars, stemVars, scanVars>>

-----------------------------------------------------------------------------
(* Bounds *)

\* longest path string given to file_name on its own
MaxLen == 4
\* most nodes in an ACT
MaxNodes == 3
\* largest exit code a process returns
MaxExit == 2
\* most bytes the compiled program writes to its standard output
MaxOut == 1
\* most lines in a file given to get_all_includes
MaxLines == 2
\* deepest recursion of the dependency graph builder
MaxDepth == 3

-----------------------------------------------------------------------------
(* Strings *)

Last(s) == s[Len(s)]

\* str::split(sep): the pieces between the separators, at least one piece,
\* empty pieces kept
RECURSIVE SplitFrom(_, _, _, _)
SplitFrom(s, sep, i, cur) ==
    IF i > Len(s) THEN <<cur>>
    ELSE IF s[i] = sep THEN <<cur>> \o SplitFrom(s, sep, i + 1, <<>>)
    ELSE SplitFrom(s, sep, i + 1, Append(cur, s[i]))

Split(s, sep) == SplitFrom(s, sep, 1, <<>>)

\* [String]::join(sep)
RECURSIVE Join(_, _)
Join(parts, sep) ==
    IF parts = <<>> THEN <<>>
    ELSE IF Len(parts) = 1 THEN parts[1]
    ELSE parts[1] \o sep \o Join(Tail(parts), sep)

\* str::replace(from, "") for a one-character `from`
Remove(s, ch) == SelectSeq(s, LAMBDA c : c # ch)

\* the mutant of file_name: the first '/'-separated piece instead of the last
file_name_first_piece(p) == Head(Split(Head(Split(p, "/")), "."))

\* utils::file_name
file_name(p) == Head(Split(Last(Split(p, "/")), "."))

-----------------------------------------------------------------------------
(* file_name on its own *)

Alphabet == {"/", ".", "a", "b"}

RECURSIVE StringsOfLen(_)
StringsOfLen(n) ==
    IF n = 0 THEN {<<>>}
    ELSE {Append(s, c) : s \in StringsOfLen(n - 1), c \in Alphabet}

Paths == UNION {StringsOfLen(n) : n \in 0..MaxLen}

-----------------------------------------------------------------------------
(* The ACT (act.rs) and the trees execute is run on *)

\* source file names: one in the working directory, one in a subdirectory;
\* a tree may use a name more than once, which makes two nodes share a stem
Names == { <<"m", ".", "c">>, <<"d", "/", "a", ".", "c">> }

ACT(name, dependencies) == [name |-> name, dependencies |-> dependencies]

RECURSIVE TreesOfSize(_), ForestsOfSize(_)
TreesOfSize(n) ==
    {ACT(nm, f) : nm \in Names, f \in ForestsOfSize(n - 1)}
ForestsOfSize(m) ==
    IF m = 0 THEN {<<>>}
    ELSE UNION {{<<t>> \o f : t \in TreesOfSize(k), f \in ForestsOfSize(m - k)}
                : k \in 1..m}

Trees == UNION {TreesOfSize(n) : n \in 1..MaxNodes}

\* a node is named by the dependency indices leading to it from the root
RECURSIVE Node(_, _)
Node(t, p) ==
    IF p = <<>> THEN t ELSE Node(t.dependencies[Head(p)], Tail(p))

-----------------------------------------------------------------------------
(* MorfoResult and MorfoError (error.rs) *)

Pending == [kind |-> "Pending", code |-> {}, io |-> ""]
Ok == [kind |-> "Ok", code |-> {}, io |-> ""]
\* CompilationFailure(Option<i32>): the option is the empty or a one-element set
CompilationFailure(code) == [kind |-> "CompilationFailure", code |-> code, io |-> ""]
IoError(kind) == [kind |-> "IoError", code |-> {}, io |-> kind]
MissingExecutable == [kind |-> "MissingExecutable", code |-> {}, io |-> ""]

IsErr(r) == r.kind \notin {"Ok", "Pending"}

\* the mutant of FromIoError: a spawn or filesystem failure reported as a
\* compilation failure without exit code
FromIoErrorAsCompilation(kind) == CompilationFailure({})

\* impl From<std::io::Error> for MorfoError
FromIoError(kind) == IoError(kind)

-----------------------------------------------------------------------------
(* Config (config.rs) *)

\* compiler names: one that is installed, one that is not
CC == <<"c", "c">>
NoCC == <<"n", "o">>
Installed == {CC}

Flags == { <<>>, << <<"-", "g">>, <<"-", "O">> >> }

\* builddir: None (the empty set) or Some(path)
DefaultBuildDir == <<".", "o", "u", "t">>
NestedBuildDir == <<"b", "/", "o">>

Configs == [cc : {CC, NoCC}, cflags : Flags,
            builddir : {{}, {NestedBuildDir}}]

get_cc(c) == c.cc
get_cflags(c) == c.cflags
get_build_dir(c) ==
    IF c.builddir = {} THEN DefaultBuildDir ELSE CHOOSE b \in c.builddir : TRUE

\* the states the build directory can be in before execute: the default
\* directory lies in the working directory, the nested one may lack its parent
DirStates(c) ==
    IF c.builddir = {} THEN {"present", "absent", "denied"}
    ELSE {"absent", "orphan"}

\* PathBuf::join with a relative component
PathJoin(a, b) == a \o <<"/">> \o b

-----------------------------------------------------------------------------
(* Processes and the filesystem *)

Exit(c) == [kind |-> "exit", code |-> c]
Signal == [kind |-> "signal", code |-> 0]
NoSpawn == [kind |-> "nospawn", code |-> 0]
NoOutcome == [kind |-> "none", code |-> 0]

\* how a started process can end
Statuses == {Exit(c) : c \in 0..MaxExit} \cup {Signal}

\* how the compiled program can end
ChildStatuses == {Exit(0), Exit(MaxExit), Signal}

\* ExitStatus::code(): Some(code), or None when a signal ended the process
StatusCode(st) == IF st.kind = "exit" THEN {st.code} ELSE {}

NoFile == [state |-> "none", by |-> <<>>]
StaleFile == [state |-> "stale", by |-> <<>>]
Built(p) == [state |-> "built", by |-> p]

Stems == {file_name(n) : n \in Names}

\* fs::create_dir: creates one directory; the parent must exist
CreateDir(d) ==
    CASE d = "absent" -> [ok |-> TRUE, kind |-> "", dir |-> "present"]
      [] d = "orphan" -> [ok |-> FALSE, kind |-> "NotFound", dir |-> d]
      [] d = "denied" -> [ok |-> FALSE, kind |-> "PermissionDenied", dir |-> d]
      [] OTHER -> [ok |-> FALSE, kind |-> "AlreadyExists", dir |-> d]

\* what the compiled program can write to its standard output
RECURSIVE BytesOfLen(_)
BytesOfLen(n) ==
    IF n = 0 THEN {<<>>} ELSE {Append(s, "H") : s \in BytesOfLen(n - 1)}
ChildOutputs == UNION {BytesOfLen(n) : n \in 0..MaxOut}

-----------------------------------------------------------------------------
(* The log of observable effects *)

Event(ev, node, out, data, bytes) ==
    [ev |-> ev, node |-> node, out |-> out, data |-> data, bytes |-> bytes]

\* println!(line): the line and a newline on the process's own standard output
Println(line) == Event("println", <<>>, NoOutcome, line \o <<"\n">>, <<>>)
\* Command::status() of the compiler for `node`, writing to the artifact `data`
CcRun(node, out, artifact) == Event("cc", node, out, artifact, <<>>)
\* the same, of a compiler that has written its output: `bytes` names the
\* file it wrote
CcWrote(node, out, artifact) == Event("cc", node, out, artifact, artifact)
\* Command::output() of the program at `exe`, which writes `bytes` to its
\* standard output
ExecRun(out, exe, bytes) == Event("exec", <<>>, out, exe, bytes)
\* bytes the child itself puts on the standard output it inherited
ChildStdout(bytes) == Event("stdout", <<>>, NoOutcome, bytes, <<>>)
\* out.write_all(bytes): bytes handed to the caller's sink
SinkWrite(bytes) == Event("write", <<>>, NoOutcome, bytes, <<>>)

\* the mutant of Verbose: any non-empty VERBOSITY switches the echo on
VerboseWhenSet(v) == v # ""

\* env::var("VERBOSITY").unwrap_or_default() == "1"
Verbose(v) == v = "1"

\* format!("{:?}", cmd): program and arguments, each in double quotes
DebugFmt(argv) ==
    Join([i \in 1..Len(argv) |-> <<"\"">> \o argv[i] \o <<"\"">>], <<" ">>)

\* format!("{:?}", cmd).replace("\"", "")
Echo(argv) == Remove(DebugFmt(argv), "\"")

\* the compiler command line of one node
CompileCmd(c, name) ==
    <<get_cc(c)>>
    \o (IF Len(get_cflags(c)) # 0 THEN <<Join(get_cflags(c), <<" ">>)>> ELSE <<>>)
    \o <<name, <<"-", "o">>, PathJoin(get_build_dir(c), file_name(name))>>

\* the mutant of CompileStatus: every failed compilation loses its exit code
CompileStatusNoCode(st) ==
    IF StatusCode(st) = {0} THEN Ok ELSE CompilationFailure({})

\* the match on status.code() that ends compile
CompileStatus(st) ==
    IF StatusCode(st) # {}
    THEN (IF StatusCode(st) # {0} THEN CompilationFailure(StatusCode(st)) ELSE Ok)
    ELSE CompilationFailure({})

\* the mutant of Executable: the file name of the source, extension included
ExecutableFullName(c, t) == Last(Split(t.name, "/"))

\* run: the file in the build directory that is checked and executed
Executable(c, t) == file_name(t.name)

\* the mutant of RunStatus: the program's exit status is treated like the
\* compiler's
RunStatusChecked(st) ==
    IF StatusCode(st) = {0} THEN Ok ELSE CompilationFailure(StatusCode(st))

\* run: the status in run_project is never looked at; after write_all, Ok(())
RunStatus(st) == Ok

\* the mutant of Exists: the existence check always passes
ExistsAlways(f, exe) == TRUE

\* Path::exists of an artifact in the build directory
Exists(f, exe) == exe \in DOMAIN f /\ f[exe].state # "none"

\* Stdio of the child's standard output as run configures it
RunStdout == "inherit"

\* Command::output(): the bytes captured for the parent; an explicitly
\* configured stream is left as configured, only an unset one is piped
Captured(stdio, bytes) == IF stdio = "piped" THEN bytes ELSE <<>>

-----------------------------------------------------------------------------
(* compile as an explicit stack of activation records *)

Frame(p) == [node |-> p, idx |-> 1, pc |-> "mkdir"]

Top == stack[Len(stack)]
Pop == SubSeq(stack, 1, Len(stack) - 1)
SetTop(f) == [stack EXCEPT ![Len(stack)] = f]

\* the mutant of LoopDone: the loop over the dependencies stops one short
LoopDoneOneShort(fr, t) == fr.idx >= Len(Node(t, fr.node).dependencies)

\* for dependency in &act.dependencies: no dependency is left
LoopDone(fr, t) == fr.idx > Len(Node(t, fr.node).dependencies)

\* the mutant of Propagates: the result of a dependency is dropped
PropagatesNever(r) == FALSE

\* the ? operator: an Err leaves the enclosing function at once
Propagates(r) == IsErr(r)

\* the mutant of CompileGate: run is called whatever compile returned
CompileGateOpen(r) == FALSE

\* execute: compile(&act, &config)? returns early on Err
CompileGate(r) == Propagates(r)

InitStem ==
    /\ path = <<>>
    /\ stem = <<>>
    /\ stem2 = <<>>
    /\ stemPc = "off"

InitScan ==
    /\ srcFile = [readable |-> FALSE, text |-> <<>>]
    /\ lineIdx = 0
    /\ includes = <<>>
    /\ scanRet = Pending
    /\ scanPc = "off"

InitGraph ==
    /\ project = [header_files |-> {}, c_files |-> {}, text |-> <<>>]
    /\ buildStack = <<>>
    /\ act = <<>>
    /\ buildPc = "off"

InitExec ==
    /\ tree \in Trees
    /\ cfg \in Configs
    /\ VERBOSITY \in {"", "0", "1"}
    /\ dir \in DirStates(cfg)
    /\ files \in {[s \in Stems |-> NoFile], [s \in Stems |-> StaleFile]}
    /\ phase = "start"
    /\ stack = <<>>
    /\ ret = Pending
    /\ compileRet = Pending
    /\ runRet = Pending
    /\ result = Pending
    /\ log = <<>>

Init == InitExec /\ InitStem /\ InitScan /\ InitGraph

\* execute: ACT::build has produced `tree`; compile is called on its root
ExecuteCall ==
    /\ phase = "start"
    /\ phase' = "compile"
    /\ stack' = <<Frame(<<>>)>>
    /\ UNCHANGED <<tree, cfg, VERBOSITY, dir, files, ret, compileRet, runRet,
                   result, log>>
    /\ UNCHANGED otherThanExec

\* compile: create the build directory if it does not exist
CompileMkdir ==
    /\ phase = "compile" /\ stack # <<>> /\ ret = Pending
    /\ Top.pc = "mkdir"
    /\ IF dir = "present"
       THEN /\ stack' = SetTop([Top EXCEPT !.pc = "deps"])
            /\ UNCHANGED <<dir, ret>>
       ELSE LET r == CreateDir(dir) IN
            /\ dir' = r.dir
            /\ IF r.ok
               THEN /\ stack' = SetTop([Top EXCEPT !.pc = "deps"])
                    /\ UNCHANGED ret
               ELSE /\ stack' = Pop
                    /\ ret' = FromIoError(r.kind)
    /\ UNCHANGED <<tree, cfg, VERBOSITY, files, phase, compileRet, runRet,
                   result, log>>
    /\ UNCHANGED otherThanExec

\* compile: the loop calls compile on the next dependency
CompileDependency ==
    /\ phase = "compile" /\ stack # <<>> /\ ret = Pending
    /\ Top.pc = "deps"
    /\ ~LoopDone(Top, tree)
    /\ stack' = Append(stack, Frame(Append(Top.node, Top.idx)))
    /\ UNCHANGED <<tree, cfg, VERBOSITY, dir, files, phase, ret, compileRet,
                   runRet, result, log>>
    /\ UNCHANGED otherThanExec

\* compile: compile(dependency, config)? has returned to the loop
CompileDependencyReturn ==
    /\ phase = "compile" /\ stack # <<>> /\ ret # Pending
    /\ IF Propagates(ret)
       THEN /\ stack' = Pop
            /\ UNCHANGED ret
       ELSE /\ stack' = SetTop([Top EXCEPT !.idx = @ + 1])
            /\ ret' = Pending
    /\ UNCHANGED <<tree, cfg, VERBOSITY, dir, files, phase, compileRet, runRet,
                   result, log>>
    /\ UNCHANGED otherThanExec

\* compile: build the command, echo it, run it, turn its status into a result
CompileInvoke ==
    /\ phase = "compile" /\ stack # <<>> /\ ret = Pending
    /\ Top.pc = "deps"
    /\ LoopDone(Top, tree)
    /\ LET name == Node(tree, Top.node).name
           argv == CompileCmd(cfg, name)
           art  == PathJoin(get_build_dir(cfg), file_name(name))
           echo == IF Verbose(VERBOSITY) THEN <<Println(Echo(argv))>> ELSE <<>>
       IN  IF get_cc(cfg) \notin Installed
           THEN /\ log' = log \o echo \o <<CcRun(Top.node, NoSpawn, art)>>
                /\ ret' = FromIoError("NotFound")
                /\ UNCHANGED files
           ELSE \E st \in Statuses, wrote \in BOOLEAN :
                /\ wrote => st = Exit(0)
                /\ log' = log \o echo
                            \o <<IF wrote THEN CcWrote(Top.node, st, art)
                                  ELSE CcRun(Top.node, st, art)>>
                /\ files' = IF wrote
                            THEN [files EXCEPT ![file_name(name)] = Built(Top.node)]
                            ELSE files
                /\ ret' = CompileStatus(st)
    /\ stack' = Pop
    /\ UNCHANGED <<tree, cfg, VERBOSITY, dir, phase, compileRet, runRet, result>>
    /\ UNCHANGED otherThanExec

\* execute: compile(&act, &config)? has returned
ExecuteCompileReturned ==
    /\ phase = "compile" /\ stack = <<>> /\ ret # Pending
    /\ compileRet' = ret
    /\ ret' = Pending
    /\ IF CompileGate(ret)
       THEN /\ result' = ret
            /\ phase' = "done"
       ELSE /\ phase' = "run"
            /\ UNCHANGED result
    /\ UNCHANGED <<tree, cfg, VERBOSITY, dir, files, stack, runRet, log>>
    /\ UNCHANGED otherThanExec

\* run: the executable must exist
RunExists ==
    /\ phase = "run"
    /\ IF ~Exists(files, Executable(cfg, tree))
       THEN /\ runRet' = MissingExecutable
            /\ result' = MissingExecutable
            /\ phase' = "done"
       ELSE /\ phase' = "spawn"
            /\ UNCHANGED <<runRet, result>>
    /\ UNCHANGED <<tree, cfg, VERBOSITY, dir, files, stack, ret, compileRet, log>>
    /\ UNCHANGED otherThanExec

\* run: echo the command, print the blank line, run the program with its
\* standard streams inherited, write what output() captured to `out`
RunSpawn ==
    /\ phase = "spawn"
    /\ LET exe  == Executable(cfg, tree)
           prog == PathJoin(get_build_dir(cfg), exe)
           argv == <<prog>>
           echo == (IF Verbose(VERBOSITY) THEN <<Println(Echo(argv))>> ELSE <<>>)
                   \o <<Println(<<>>)>>
       IN  \E started \in BOOLEAN :
           /\ started => Exists(files, exe)
           /\ IF ~started
              THEN /\ log' = log \o echo \o <<ExecRun(NoSpawn, prog, <<>>)>>
                   /\ runRet' = FromIoError(IF Exists(files, exe)
                                            THEN "PermissionDenied" ELSE "NotFound")
              ELSE \E st \in ChildStatuses, bytes \in ChildOutputs :
                   /\ log' = log \o echo
                               \o <<ExecRun(st, prog, bytes)>>
                               \o (IF RunStdout = "inherit" /\ bytes # <<>>
                                   THEN <<ChildStdout(bytes)>> ELSE <<>>)
                               \o <<SinkWrite(Captured(RunStdout, bytes))>>
                   /\ runRet' = RunStatus(st)
    /\ result' = runRet'
    /\ phase' = "done"
    /\ UNCHANGED <<tree, cfg, VERBOSITY, dir, files, stack, ret, compileRet>>
    /\ UNCHANGED otherThanExec

Next ==
    \/ ExecuteCall
    \/ CompileMkdir
    \/ CompileDependency
    \/ CompileDependencyReturn
    \/ CompileInvoke
    \/ ExecuteCompileReturned
    \/ RunExists
    \/ RunSpawn

Spec == Init /\ [][Next]_vars

-----------------------------------------------------------------------------
(* file_name applied to an arbitrary path, and to its own result *)

IdleExec ==
    /\ tree = ACT(<<"m", ".", "c">>, <<>>)
    /\ cfg = [cc |-> CC, cflags |-> <<>>, builddir |-> {}]
    /\ VERBOSITY = ""
    /\ dir = "present"
    /\ files = [s \in Stems |-> NoFile]
    /\ phase = "off"
    /\ stack = <<>>
    /\ ret = Pending
    /\ compileRet = Pending
    /\ runRet = Pending
    /\ result = Pending
    /\ log = <<>>

InitFileName ==
    /\ IdleExec
    /\ InitScan
    /\ InitGraph
    /\ path \in Paths
    /\ stem = <<>>
    /\ stem2 = <<>>
    /\ stemPc = "ready"

ApplyFileName ==
    /\ stemPc = "ready"
    /\ stem' = file_name(path)
    /\ stemPc' = "once"
    /\ UNCHANGED <<path, stem2>>
    /\ UNCHANGED otherThanStem

ApplyFileNameAgain ==
    /\ stemPc = "once"
    /\ stem2' = file_name(stem)
    /\ stemPc' = "twice"
    /\ UNCHANGED <<path, stem>>
    /\ UNCHANGED otherThanStem

NextFileName ==
    \/ ApplyFileName
    \/ ApplyFileNameAgain

SpecFileName == InitFileName /\ [][NextFileName]_vars

-----------------------------------------------------------------------------
(* act::builder::get_all_includes *)

Quote == "\""

\* the literal text the pattern starts with
IncludeLit == <<"#", "i", "n", "c", "l", "u", "d", "e">>

\* \s of the pattern
IsSpace(c) == c \in {" ", "\t"}

\* str::lines(): the pieces between line feeds, a final empty piece dropped,
\* a carriage return at the end of a line dropped
StripCr(l) == IF l # <<>> /\ Last(l) = "\r" THEN SubSeq(l, 1, Len(l) - 1) ELSE l

Lines(text) ==
    LET pieces == Split(text, "\n")
        kept   == IF Last(pieces) = <<>>
                  THEN SubSeq(pieces, 1, Len(pieces) - 1) ELSE pieces
    IN  [i \in 1..Len(kept) |-> StripCr(kept[i])]

\* #include of the pattern, at position i of the line
LitAt(s, i) ==
    /\ i + Len(IncludeLit) - 1 <= Len(s)
    /\ SubSeq(s, i, i + Len(IncludeLit) - 1) = IncludeLit

\* \s* of the pattern: the first position at or after j that is no space
RECURSIVE SkipSpace(_, _)
SkipSpace(s, j) ==
    IF j <= Len(s) /\ IsSpace(s[j]) THEN SkipSpace(s, j + 1) ELSE j

\* the positions after the opening quote at j where "(.*)" can end
QuotesAfter(s, j) == {k \in (j + 1)..Len(s) : s[k] = Quote}

\* (.*) is greedy: it runs to the last quote of the line
CaptureEnd(s, j) == CHOOSE k \in QuotesAfter(s, j) : \A m \in QuotesAfter(s, j) : m <= k

\* the pattern matches with its first character at position i
MatchesAt(s, i) ==
    /\ LitAt(s, i)
    /\ LET j == SkipSpace(s, i + Len(IncludeLit))
       IN  j <= Len(s) /\ s[j] = Quote /\ QuotesAfter(s, j) # {}

\* the mutant of Captures: the group takes the two quotes with it
CapturesWithQuotes(s) ==
    LET starts == {i \in 1..Len(s) : MatchesAt(s, i)}
    IN  IF starts = {} THEN <<>>
        ELSE LET i == CHOOSE x \in starts : \A y \in starts : x <= y
                 j == SkipSpace(s, i + Len(IncludeLit))
             IN  <<SubSeq(s, j, CaptureEnd(s, j))>>

\* re.captures(line): the leftmost match's group 1, as a sequence of zero
\* (None) or one (Some) strings
Captures(s) ==
    LET starts == {i \in 1..Len(s) : MatchesAt(s, i)}
    IN  IF starts = {} THEN <<>>
        ELSE LET i == CHOOSE x \in starts : \A y \in starts : x <= y
                 j == SkipSpace(s, i + Len(IncludeLit))
             IN  <<SubSeq(s, j + 1, CaptureEnd(s, j) - 1)>>

\* lines of C source
LocalInclude   == IncludeLit \o <<" ", Quote, "a", ".", "h", Quote>>
SystemInclude  == IncludeLit \o <<" ", "<", "s", ".", "h", ">">>
TightInclude   == IncludeLit \o <<Quote, "b", ".", "h", Quote>>
IndentedInclude == <<" ", " ">> \o LocalInclude
CommentedInclude == LocalInclude \o <<" ", "/", "/", " ", Quote, "b", Quote>>
OpenInclude    == IncludeLit \o <<" ", Quote, "a", ".", "h">>
Statement      == <<"x", ";">>

SourceLines ==
    { <<>>, LocalInclude, SystemInclude, TightInclude, IndentedInclude,
      CommentedInclude, OpenInclude, Statement }

\* texts of at most MaxLines lines, with and without a final line feed
SourceTexts ==
    LET lists == UNION {[1..n -> SourceLines] : n \in 0..MaxLines}
    IN  {Join(ls, <<"\n">>) : ls \in lists}
        \cup {Join(ls, <<"\n">>) \o <<"\n">> : ls \in lists}

SourceFiles ==
    {[readable |-> TRUE, text |-> t] : t \in SourceTexts}
    \cup {[readable |-> FALSE, text |-> <<>>]}

InitGetAllIncludes ==
    /\ IdleExec
    /\ InitStem
    /\ InitGraph
    /\ srcFile \in SourceFiles
    /\ lineIdx = 0
    /\ includes = <<>>
    /\ scanRet = Pending
    /\ scanPc = "read"

\* let contents = fs::read_to_string(filepath)?;
ScanRead ==
    /\ scanPc = "read"
    /\ IF srcFile.readable
       THEN /\ scanPc' = "lines"
            /\ lineIdx' = 1
            /\ UNCHANGED scanRet
       ELSE /\ scanPc' = "done"
            /\ scanRet' = FromIoError("NotFound")
            /\ UNCHANGED lineIdx
    /\ UNCHANGED <<srcFile, includes>>
    /\ UNCHANGED otherThanScan

\* one turn of the for loop over contents.lines()
ScanLine ==
    /\ scanPc = "lines"
    /\ lineIdx <= Len(Lines(srcFile.text))
    /\ includes' = includes \o Captures(Lines(srcFile.text)[lineIdx])
    /\ lineIdx' = lineIdx + 1
    /\ UNCHANGED <<srcFile, scanRet, scanPc>>
    /\ UNCHANGED otherThanScan

\* Ok(includes)
ScanReturn ==
    /\ scanPc = "lines"
    /\ lineIdx > Len(Lines(srcFile.text))
    /\ scanRet' = Ok
    /\ scanPc' = "done"
    /\ UNCHANGED <<srcFile, lineIdx, includes>>
    /\ UNCHANGED otherThanScan

NextGetAllIncludes ==
    \/ ScanRead
    \/ ScanLine
    \/ ScanReturn

SpecGetAllIncludes == InitGetAllIncludes /\ [][NextGetAllIncludes]_vars

-----------------------------------------------------------------------------
(* ACT::build(main_file): the dependency graph builder *)

\* get_all_includes as a function of the text of a readable file
RECURSIVE ScanLines(_)
ScanLines(ls) ==
    IF ls = <<>> THEN <<>> ELSE Captures(Head(ls)) \o ScanLines(Tail(ls))

get_all_includes(text) == ScanLines(Lines(text))

\* the files of a project
MainC == <<"m", ".", "c">>
AuxH  == <<"a", ".", "h">>
AuxC  == <<"a", ".", "c">>
LibH  == <<"b", ".", "h">>
LibC  == <<"b", ".", "c">>

IncludeOf(h) == IncludeLit \o <<" ", Quote>> \o h \o <<Quote>>

\* the main file: at most MaxLines lines, local and system includes
MainTexts ==
    LET ls == {IncludeOf(AuxH), IncludeOf(LibH), SystemInclude}
    IN  {Join(t, <<"\n">>) : t \in UNION {[1..n -> ls] : n \in 0..MaxLines}}

\* the other sources: no include, or one local include
DepTexts == {<<>>, IncludeOf(AuxH), IncludeOf(LibH)}

\* the directory index and the texts of the sources in it
Projects ==
    { [header_files |-> hs,
       c_files |-> cs \cup {MainC},
       text |-> (MainC :> tm @@ AuxC :> ta @@ LibC :> tb)] :
      hs \in SUBSET {AuxH, LibH}, cs \in SUBSET {AuxC, LibC},
      tm \in MainTexts, ta \in DepTexts, tb \in DepTexts }

\* step 4: the header's extension replaced by the source extension
source_of(h) ==
    LET ps == Split(h, ".")
    IN  Join(SubSeq(ps, 1, Len(ps) - 1) \o << <<"c">> >>, <<".">>)

\* steps 3 and 4: the target is a header of the index, by string equality,
\* and the source derived from it is a source of the index
Resolves(p, t) == t \in p.header_files /\ source_of(t) \in p.c_files

\* steps 1 and 2: a new node for `path`, and the targets of its includes
BuildFrame(p) ==
    [path |-> p, incl |-> get_all_includes(project.text[p]), idx |-> 1,
     deps |-> <<>>]

BuildTop == buildStack[Len(buildStack)]

InitBuild ==
    /\ IdleExec
    /\ InitStem
    /\ InitScan
    /\ project \in Projects
    /\ buildStack = <<>>
    /\ act = <<>>
    /\ buildPc = "start"

\* build(main_file) is entered
BuildCall ==
    /\ buildPc = "start"
    /\ buildStack' = <<BuildFrame(MainC)>>
    /\ buildPc' = "run"
    /\ UNCHANGED <<project, act>>
    /\ UNCHANGED otherThanGraph

\* an include without a header in the index, or whose header has no source
\* in the index: nothing is done for it
BuildSkip ==
    /\ buildPc = "run"
    /\ BuildTop.idx <= Len(BuildTop.incl)
    /\ ~Resolves(project, BuildTop.incl[BuildTop.idx])
    /\ buildStack' = [buildStack EXCEPT ![Len(buildStack)].idx = @ + 1]
    /\ UNCHANGED <<project, act, buildPc>>
    /\ UNCHANGED otherThanGraph

\* step 5: build is invoked on the source found; there is no cycle
\* detection, and recursion deeper than MaxDepth ends the process
BuildRecurse ==
    /\ buildPc = "run"
    /\ BuildTop.idx <= Len(BuildTop.incl)
    /\ Resolves(project, BuildTop.incl[BuildTop.idx])
    /\ IF Len(buildStack) < MaxDepth
       THEN /\ buildStack' = Append(buildStack,
                                    BuildFrame(source_of(BuildTop.incl[BuildTop.idx])))
            /\ UNCHANGED buildPc
       ELSE /\ buildPc' = "overflow"
            /\ UNCHANGED buildStack
    /\ UNCHANGED <<project, act>>
    /\ UNCHANGED otherThanGraph

\* step 6, and the rest of step 5: the node is returned and appended to the
\* caller's dependencies
BuildReturn ==
    /\ buildPc = "run"
    /\ BuildTop.idx > Len(BuildTop.incl)
    /\ LET node == ACT(BuildTop.path, BuildTop.deps)
           n    == Len(buildStack)
       IN  IF n = 1
           THEN /\ act' = node
                /\ buildStack' = <<>>
                /\ buildPc' = "done"
           ELSE /\ buildStack' =
                       [SubSeq(buildStack, 1, n - 1) EXCEPT
                           ![n - 1].deps = Append(@, node),
                           ![n - 1].idx = @ + 1]
                /\ UNCHANGED <<act, buildPc>>
    /\ UNCHANGED project
    /\ UNCHANGED otherThanGraph

NextBuild ==
    \/ BuildCall
    \/ BuildSkip
    \/ BuildRecurse
    \/ BuildReturn

SpecBuild == InitBuild /\ [][NextBuild]_vars

-----------------------------------------------------------------------------
(* What the log shows *)

\* the compiler runs so far, in order
Invoked == SelectSeq(log, LAMBDA e : e.ev = "cc")

\* the runs of the compiled program so far
Executed == SelectSeq(log, LAMBDA e : e.ev = "exec")

\* what has appeared on the process's own standard output, item by item
StdoutItems ==
    LET shown == SelectSeq(log, LAMBDA e : e.ev \in {"println", "stdout"})
    IN  [i \in 1..Len(shown) |-> shown[i].data]

\* what has been written to the caller's sink, write by write
SinkWrites ==
    LET w == SelectSeq(log, LAMBDA e : e.ev = "write")
    IN  [i \in 1..Len(w) |-> w[i].data]

RECURSIVE Concat(_)
Concat(ss) == IF ss = <<>> THEN <<>> ELSE Head(ss) \o Concat(Tail(ss))

\* the bytes the caller's sink holds
Sink == Concat(SinkWrites)

\* the nodes of a tree, dependencies before the node, siblings in list order
RECURSIVE PostOrder(_, _)
PostOrder(t, p) ==
    Concat([i \in 1..Len(t.dependencies) |->
                PostOrder(t.dependencies[i], Append(p, i))])
    \o <<p>>

IsStrictPrefix(p, q) == Len(p) < Len(q) /\ SubSeq(q, 1, Len(p)) = p

\* what the outermost compile has returned, or is returning, if anything
CompileReturned ==
    IF phase = "compile" THEN (IF stack = <<>> THEN ret ELSE Pending)
    ELSE compileRet

-----------------------------------------------------------------------------
(* C1 *)

\* C1: the compiler is run on a node only after it has run, with exit code 0,
\* on every node of the node's dependency subtrees; the runs follow the
\* post-order of the tree (siblings in list order), and when compile returns
\* Ok every node has been compiled, the root last.
C1_PostOrder ==
    LET po == PostOrder(tree, <<>>) IN
    /\ Len(Invoked) <= Len(po)
    /\ \A i \in 1..Len(Invoked) :
        /\ Invoked[i].node = po[i]
        /\ \A j \in 1..Len(po) :
             IsStrictPrefix(Invoked[i].node, po[j])
             => \E k \in 1..(i - 1) :
                    Invoked[k].node = po[j] /\ Invoked[k].out = Exit(0)
    /\ CompileReturned = Ok
       => /\ Len(Invoked) = Len(po)
          /\ Invoked[Len(Invoked)].node = <<>>

\* a tree with a grandchild and a second dependency compiled to the end
C1_Witness ==
    /\ compileRet = Ok
    /\ Len(tree.dependencies) >= 1
    /\ tree.dependencies[1].dependencies # <<>>
    /\ Len(Invoked) >= 3

(* C2 *)

\* the error compile returns for a compiler run that did not end with exit 0
FailureOf(out) ==
    CASE out.kind = "exit" -> CompilationFailure({out.code})
      [] out.kind = "signal" -> CompilationFailure({})
      [] OTHER -> IoError("NotFound")

\* C2: a compiler run that fails is the last compiler run: no sibling, no
\* ancestor and nothing else is compiled afterwards, the error is handed up
\* unchanged and is what compile returns.
C2_FirstFailureAborts ==
    /\ \A i \in 1..Len(Invoked) :
         Invoked[i].out # Exit(0) => i = Len(Invoked)
    /\ (Invoked # <<>> /\ Last(Invoked).out # Exit(0))
       => /\ phase = "compile" => ret = FailureOf(Last(Invoked).out)
          /\ phase # "compile" => compileRet = FailureOf(Last(Invoked).out)
          /\ Executed = <<>>

\* a failure in a node that has siblings or ancestors still to compile
C2_Witness ==
    /\ phase = "done"
    /\ Invoked # <<>>
    /\ Last(Invoked).out = Exit(1)
    /\ Len(Invoked) < Len(PostOrder(tree, <<>>))
    /\ cfg.cc = CC

(* C3 *)

\* C3: when compile returns an error, execute returns that error at once:
\* run is not entered (no existence check, no child process, no write to the
\* sink); execute returns Ok only when compile and run both returned Ok.
C3_CompileErrorSkipsRun ==
    /\ IsErr(compileRet)
       => /\ phase = "done"
          /\ result = compileRet
          /\ runRet = Pending
          /\ Executed = <<>>
          /\ SinkWrites = <<>>
    /\ result = Ok => (compileRet = Ok /\ runRet = Ok)
    /\ phase \in {"run", "spawn"} => compileRet = Ok

\* compile failed although a runnable executable of an earlier build exists
C3_Witness ==
    /\ phase = "done"
    /\ IsErr(compileRet)
    /\ Invoked # <<>>
    /\ files[file_name(tree.name)].state = "stale"

(* C4 *)

\* C4: for a compiler process that was started and has finished, exit code 0
\* lets compile go on or return Ok, a nonzero exit code c makes compile
\* return CompilationFailure(Some(c)), and death by signal makes it return
\* CompilationFailure(None).
C4_ExitStatus ==
    Invoked # <<>> =>
        LET out == Last(Invoked).out
            now == IF phase = "compile" THEN ret ELSE compileRet
        IN  /\ (out.kind = "exit" /\ out.code = 0) => now \in {Ok, Pending}
            /\ (out.kind = "exit" /\ out.code # 0)
               => (now = CompilationFailure({out.code}) /\ now.code # {})
            /\ out.kind = "signal" => now = CompilationFailure({})

\* a nonzero exit code has come back from execute
C4_Witness ==
    /\ phase = "done"
    /\ Invoked # <<>>
    /\ Last(Invoked).out = Exit(MaxExit)
    /\ result = CompilationFailure({MaxExit})

(* C5 *)

\* C5 as stated: when the compiler could not be started, execute returns an
\* error of the CompilationFailure kind, never MissingExecutable.
C5_Original ==
    (phase = "done" /\ cfg.cc = NoCC /\ Invoked # <<>>)
    => (result.kind = "CompilationFailure" /\ result # MissingExecutable)

\* C5 as amended: with a compiler that cannot be started, execute returns an
\* I/O error raised in compile, not CompilationFailure and never
\* MissingExecutable: the first compiler run fails to start, no other is
\* tried, the error is IoError(NotFound), and run is not entered.
C5_SpawnFailureIsIoError ==
    (phase = "done" /\ cfg.cc = NoCC)
    => /\ result.kind = "IoError"
       /\ result = compileRet
       /\ runRet = Pending
       /\ Executed = <<>>
       /\ Invoked # <<>>
          => /\ Len(Invoked) = 1
             /\ Last(Invoked).out = NoSpawn
             /\ result = IoError("NotFound")

\* the compiler is missing while an executable of an earlier build exists, so
\* that run, had it been entered, would not have reported MissingExecutable
C5_Witness ==
    /\ phase = "done"
    /\ cfg.cc = NoCC
    /\ Invoked # <<>>
    /\ Len(PostOrder(tree, <<>>)) > 1
    /\ files[file_name(tree.name)].state = "stale"

(* C6 *)

\* the executable run is to look for: <build_dir>/<stem of the root's name>
ExpectedExe == get_build_dir(cfg) \o <<"/">> \o file_name(tree.name)

\* run has been entered and has got past its existence check or returned
RunChecked == phase = "spawn" \/ runRet # Pending

\* C6: run looks for <build_dir>/<stem(main file name)> and nothing else; when
\* nothing exists there it returns MissingExecutable, having started no
\* process, printed nothing and written nothing to the sink; when something
\* exists there it does not return MissingExecutable.
C6_MissingExecutable ==
    /\ RunChecked
       => (runRet = MissingExecutable
           <=> files[file_name(tree.name)].state = "none")
    /\ runRet = MissingExecutable
       => /\ result = MissingExecutable
          /\ Executed = <<>>
          /\ SinkWrites = <<>>
          /\ \A i \in 1..Len(log) : log[i].ev \in {"println", "cc"}
          /\ Len(log) > 0 => Last(log).ev = "cc"
    /\ \A i \in 1..Len(Executed) : Executed[i].data = ExpectedExe

\* the compiler exits with 0 on every node and leaves no executable behind,
\* although another artifact was written
C6_Witness ==
    /\ runRet = MissingExecutable
    /\ compileRet = Ok
    /\ \E s \in Stems : files[s].state = "built"

(* C7 *)

\* C7: when the program was started and run returned Ok, the sink holds
\* exactly the bytes the program wrote to its standard output.
C7_SinkHoldsChildOutput ==
    (runRet = Ok /\ Executed # <<>>) => Sink = Last(Executed).bytes

(* C8 *)

\* the echo of the compiler command of the i-th compiler run
CompileEcho(i) ==
    Echo(CompileCmd(cfg, Node(tree, Invoked[i].node).name)) \o <<"\n">>
\* the echo of the run command
RunEcho == Echo(<<ExpectedExe>>) \o <<"\n">>
BlankLine == <<"\n">>

\* the diagnostics and output due so far, as the claim orders them: one line
\* per compiler run, then the run line, the blank separator and the output
Transcript(verbose) ==
    (IF verbose THEN [i \in 1..Len(Invoked) |-> CompileEcho(i)] ELSE <<>>)
    \o (IF Executed = <<>> THEN <<>>
        ELSE (IF verbose THEN <<RunEcho>> ELSE <<>>)
             \o <<BlankLine>>
             \o (IF Last(Executed).bytes # <<>>
                 THEN <<Last(Executed).bytes>> ELSE <<>>))

C8_WitnessQuiet ==
    /\ VERBOSITY = "0"
    /\ phase = "done"
    /\ runRet = Ok
    /\ Len(Invoked) >= 2

(* C9 *)

\* C9: no compiler runs before the build directory exists, and compile fails
\* before its first compiler run only when the directory cannot be created
\* for a genuine reason: a missing parent directory is created with it.
C9_BuildDirEnsured ==
    /\ Invoked # <<>> => dir = "present"
    /\ (Invoked = <<>> /\ IsErr(CompileReturned))
       => (dir = "denied" /\ CompileReturned.kind = "IoError")

-----------------------------------------------------------------------------
(* C10 *)

Chars(s) == {s[i] : i \in 1..Len(s)}

\* the final '/'-separated component of a path
FinalComponent(p) ==
    LET slashes == {i \in 1..Len(p) : p[i] = "/"}
        k == IF slashes = {} THEN 0
             ELSE CHOOSE i \in slashes : \A j \in slashes : j <= i
    IN  SubSeq(p, k + 1, Len(p))

Main == <<"m", "a", "i", "n">>

\* C10: file_name(path) is the final '/'-separated component of the path cut
\* at its extension: a name without '.' comes back unchanged, the result
\* holds no '/', and file_name of the result is the result; "main.c" and
\* "src/main.cpp" both give "main".
C10_Stem ==
    /\ stemPc \in {"once", "twice"}
       => LET comp == FinalComponent(path) IN
          /\ Len(stem) <= Len(comp)
          /\ stem = SubSeq(comp, 1, Len(stem))
          /\ "." \notin Chars(stem)
          /\ Len(stem) < Len(comp) => comp[Len(stem) + 1] = "."
          /\ "." \notin Chars(comp) => stem = comp
          /\ "/" \notin Chars(stem)
    /\ stemPc = "twice" => stem2 = stem
    /\ file_name(Main \o <<".", "c">>) = Main
    /\ file_name(<<"s", "r", "c", "/">> \o Main \o <<".", "c", "p", "p">>) = Main

\* a path with a directory prefix and an extension, its stem taken twice
C10_Witness ==
    /\ stemPc = "twice"
    /\ "/" \in Chars(path)
    /\ "." \in Chars(FinalComponent(path))
    /\ stem # <<>>
    /\ stem # path

-----------------------------------------------------------------------------
(* C13 *)

\* the compiler runs that wrote the file run looks for
WroteExe == {i \in 1..Len(Invoked) : Invoked[i].bytes = ExpectedExe}

\* C13: when compile returns Ok, the root's compiler run is the last compiler
\* run and the only one of the root; its output path is the path run checks
\* and executes, so every dependency that writes to that path does so before
\* the root does: once the root's run has written its output, the file at
\* the path is the root's and run finds it.
C13_RootArtifactLast ==
    compileRet = Ok =>
        LET n == Len(Invoked) IN
        /\ n > 0
        /\ Invoked[n].node = <<>>
        /\ Invoked[n].data = ExpectedExe
        /\ \A i \in 1..(n - 1) : Invoked[i].node # <<>>
        /\ n \in WroteExe
           => /\ files[file_name(tree.name)] = Built(<<>>)
              /\ RunChecked => runRet # MissingExecutable
        /\ \A i \in 1..Len(Executed) : Executed[i].data = Invoked[n].data

\* a dependency with the root's stem wrote the executable's path, then the
\* root's run wrote it, and the program was started
C13_Witness ==
    /\ compileRet = Ok
    /\ Len(Invoked) \in WroteExe
    /\ \E i \in WroteExe : i < Len(Invoked)
    /\ Executed # <<>>
    /\ Last(Executed).out # NoSpawn

(* C14 *)

\* C14: once the program has been started and has ended, run and execute
\* return Ok whatever its exit status: a nonzero exit code or death by
\* signal of the program is no error.
C14_ChildStatusIgnored ==
    \A i \in 1..Len(Executed) :
        Executed[i].out \in ChildStatuses
        => (runRet = Ok /\ result = Ok /\ phase = "done")

\* the program ended with the largest exit code, another run with a signal
C14_Witness ==
    /\ Executed # <<>>
    /\ Last(Executed).out \in {Exit(MaxExit), Signal}
    /\ Last(Executed).out # Exit(0)
    /\ result = Ok

(* C12 *)

\* the target of the double-quoted #include directive on a line, if there is
\* one: the text between the quote that follows #include and the quote that
\* closes it
DirectiveTarget(l) ==
    LET starts == {i \in 1..Len(l) : MatchesAt(l, i)}
    IN  IF starts = {} THEN <<>>
        ELSE LET i == CHOOSE x \in starts : \A y \in starts : x <= y
                 j == SkipSpace(l, i + Len(IncludeLit))
                 k == CHOOSE x \in QuotesAfter(l, j) :
                          \A y \in QuotesAfter(l, j) : x <= y
             IN  <<SubSeq(l, j + 1, k - 1)>>

\* the targets of a text's directives, line by line, repetitions kept
Targets(text) ==
    LET ls == Lines(text)
    IN  Concat([i \in 1..Len(ls) |-> DirectiveTarget(ls[i])])

\* C12: for a readable file get_all_includes returns Ok with exactly the
\* targets of the double-quoted #include directives, in line order, without
\* deduplication and at most one per line; the empty file gives the empty
\* sequence.
C12_ExactTargets ==
    (scanPc = "done" /\ srcFile.readable)
    => /\ scanRet = Ok
       /\ includes = Targets(srcFile.text)
       /\ Len(includes) <= Len(Lines(srcFile.text))
       /\ srcFile.text = <<>> => includes = <<>>

(* C11 *)

\* the source with the stem of a header
SameStemSource(h) == SubSeq(h, 1, Len(h) - 1) \o <<"c">>

\* the includes of a text that have their header and their source in the
\* index, in the order of the text
Found(text) ==
    SelectSeq(Targets(text),
              LAMBDA t : /\ t \in project.header_files
                         /\ SameStemSource(t) \in project.c_files)

\* a node has one dependency per such include of its file, in order, named
\* for the source, and so has every dependency
RECURSIVE WellBuilt(_)
WellBuilt(n) ==
    LET f == Found(project.text[n.name])
    IN  /\ Len(n.dependencies) = Len(f)
        /\ \A i \in 1..Len(f) :
              /\ n.dependencies[i].name = SameStemSource(f[i])
              /\ WellBuilt(n.dependencies[i])

====
